---- MODULE Spec2Model ----
(***************************************************************************)
(* Model of f1_data_collector.py: connect_to_mongo, fetch_data,            *)
(* save_to_collection (a loop of update_one(filter, {"$set": item},        *)
(* upsert=True) calls) and main, which runs the three jobs sessions,       *)
(* drivers and laps one after the other.                                   *)
(*                                                                         *)
(* Spec      is main() run once against an empty database.                 *)
(* SpecSave  is save_to_collection called repeatedly by a caller that      *)
(*           passes arbitrary batches, and may pass the same batch again.  *)
(***************************************************************************)
EXTENDS Integers, Sequences, FiniteSets, TLC

VARIABLES
    db,              \* the database: collection name -> sequence of documents (natural order)
    next_id,         \* the next ObjectId the store hands out on an insert
    pc,              \* position of main (or of the caller of save_to_collection)
    job,             \* which of main's three jobs is running (1..3)
    db_handle,       \* what connect_to_mongo returned: "None" or "Database"
    fetched,         \* the value returned by the last fetch_data call
    fetch_outcome,   \* what happened to the last HTTP request
    spc,             \* position inside save_to_collection
    data,            \* save_to_collection parameter
    collection_name, \* save_to_collection parameter
    unique_keys,     \* save_to_collection parameter
    idx,             \* position of the for loop over data (1-based)
    upserted_count,  \* local counter of save_to_collection
    modified_count,  \* local counter of save_to_collection
    results,         \* outcome of each update_one call of the current run, in order
    log,             \* the records emitted through logging
    run,             \* how many times in a row the caller has applied the current batch
    calls,           \* how many save_to_collection calls the caller has made
    db_before,       \* contents of the target collection when the current call started
    db_first,        \* contents of the target collection when the first run on this batch returned
    clean,           \* no update_one raised in any run on the current batch
    reachable,       \* the store answers (FALSE: every update_one raises a connection error)
    found,           \* a concurrent run's view: what the lookup of the current item found
    others           \* how many writes other clients of the store have made

vars == <<db, next_id, pc, job, db_handle, fetched, fetch_outcome, spc, data,
          collection_name, unique_keys, idx, upserted_count, modified_count,
          results, log, run, calls, db_before, db_first, clean,
          reachable, found, others>>

envVars == <<reachable, found, others>>

\* found before update_one has looked the filter up
NotLooked == [looked |-> FALSE, id |-> 0]
mainVars == <<pc, job, db_handle, fetched, fetch_outcome>>
callerVars == <<run, calls, db_first>>

----------------------------------------------------------------------------
(* Bounds *)

MaxBatchLen == 2      \* longest record list a caller passes to save_to_collection
MaxFetchLen == 2      \* longest record list a fetch returns to main
MaxRuns == 3          \* how many times in a row one batch is applied
MaxCalls == 3         \* how many save_to_collection calls the caller makes in all
MaxOther == 2         \* how many writes other clients of the store make

----------------------------------------------------------------------------
(* Records and documents *)

Absent == "<absent>"     \* the field is not in the dictionary
Null == "None"           \* the field is there and holds None / null

Fields == {"session_key", "driver_number", "lap_number", "time"}

FieldValues(f) ==
    CASE f = "session_key"   -> {"9158"}
      [] f = "driver_number" -> {"44", Absent}
      [] f = "lap_number"    -> {"1"}
      [] f = "time"          -> {"908", "912"}

Records == {r \in [Fields -> {"9158", "44", "1", "908", "912", Absent}] :
                \A f \in Fields : r[f] \in FieldValues(f)}

RECURSIVE SeqsUpTo(_, _)
SeqsUpTo(S, n) ==
    IF n = 0 THEN {<<>>}
    ELSE LET shorter == SeqsUpTo(S, n - 1)
         IN shorter \cup {Append(s, x) : s \in {t \in shorter : Len(t) = n - 1}, x \in S}

Batches == SeqsUpTo(Records, MaxBatchLen)

\* What the API returns to main
FetchRecords == {r \in Records : r["time"] = "908"}
FetchBodies == SeqsUpTo(FetchRecords, MaxFetchLen)

Range(s) == {s[i] : i \in DOMAIN s}

\* An item of the decoded response that is no dictionary: a number or string
\* of a JSON array, or a key of a JSON object (iterating a dict yields its keys)
NotADict == [f \in Fields |-> "<not a dict>"]

IsDict(item) == item # NotADict

\* Decoded responses of a successful request that are no list of records
MalformedBodies ==
    {b \in SeqsUpTo(FetchRecords \cup {NotADict}, MaxFetchLen) :
        \E i \in DOMAIN b : ~IsDict(b[i])}

\* main's three jobs: endpoint = collection name, and the unique key list
Jobs == << [name |-> "sessions", keys |-> <<"session_key">>],
           [name |-> "drivers",  keys |-> <<"session_key", "driver_number">>],
           [name |-> "laps",     keys |-> <<"session_key", "driver_number", "lap_number">>] >>

Collections == {Jobs[j].name : j \in DOMAIN Jobs}

----------------------------------------------------------------------------
(* The store's update_one(filter, {"$set": item}, upsert=True) *)

\* item.get(key): None when the key is missing
Get(item, key) == IF item[key] = Absent THEN Null ELSE item[key]

\* (a filter made of the whole item instead of the key fields)
filter_queryWholeItem(item, keys) ==
    [k \in {f \in Fields : item[f] # Absent} |-> item[k]]

\* (a filter that leaves out the key fields the item lacks)
filter_querySkipMissing(item, keys) ==
    [k \in {f \in Range(keys) : item[f] # Absent} |-> item[k]]

\* {key: item.get(key) for key in unique_keys}
filter_query(item, keys) == [k \in Range(keys) |-> Get(item, k)]

\* An equality filter; {k: null} matches a document where k is null or missing
Matches(doc, fq) ==
    \A k \in DOMAIN fq :
        IF fq[k] = Null THEN doc.f[k] \in {Null, Absent} ELSE doc.f[k] = fq[k]

\* (the first document of the collection, whether it matches or not)
FirstMatchAny(coll, fq) == IF coll # <<>> THEN 1 ELSE 0

\* (only the first document of the collection is compared with the filter)
FirstMatchHead(coll, fq) == IF coll # <<>> /\ Matches(coll[1], fq) THEN 1 ELSE 0

\* index of the first matching document in natural order, 0 when there is none
FirstMatch(coll, fq) ==
    IF \E i \in DOMAIN coll : Matches(coll[i], fq)
    THEN CHOOSE i \in DOMAIN coll :
            /\ Matches(coll[i], fq)
            /\ \A j \in DOMAIN coll : Matches(coll[j], fq) => i <= j
    ELSE 0

\* (the document is replaced by the item)
SetFieldsReplace(f, item) == item

\* (only the fields the document does not have yet are written)
SetFieldsKeep(f, item) == [k \in Fields |-> IF f[k] # Absent THEN f[k] ELSE item[k]]

\* $set: every field of item is written, the other fields of the document stay
SetFields(f, item) == [k \in Fields |-> IF item[k] # Absent THEN item[k] ELSE f[k]]

\* The document an upsert inserts: the filter's equality fields, then $set
UpsertDoc(fq, item, id) ==
    [_id |-> id,
     f |-> SetFields([k \in Fields |-> IF k \in DOMAIN fq THEN fq[k] ELSE Absent], item)]

\* (insert_one: a new document whatever the collection holds)
update_oneInsert(coll, fq, item, id) ==
    [coll |-> Append(coll, UpsertDoc(fq, item, id)),
     matched_count |-> 0, modified_count |-> 0, upserted_id |-> id, target |-> id]

\* The result of one update_one call and the collection after it
update_one(coll, fq, item, id) ==
    LET m == FirstMatch(coll, fq) IN
    IF m = 0
    THEN [coll |-> Append(coll, UpsertDoc(fq, item, id)),
          matched_count |-> 0, modified_count |-> 0, upserted_id |-> id, target |-> id]
    ELSE LET newf == SetFields(coll[m].f, item) IN
         [coll |-> [coll EXCEPT ![m].f = newf],
          matched_count |-> 1,
          modified_count |-> IF newf = coll[m].f THEN 0 ELSE 1,
          upserted_id |-> 0,
          target |-> coll[m]._id]

----------------------------------------------------------------------------
(* Logging *)

LogRecord(level, msg, name, a, b) ==
    [level |-> level, msg |-> msg, name |-> name, a |-> a, b |-> b]

----------------------------------------------------------------------------
(* save_to_collection *)

\* (no short-circuit on an empty list)
not_dataNever(d) == FALSE

\* "not data": the list is empty
not_data(d) == d = <<>>

\* (break: the loop ends at the first error)
continue_afterBreak(i, n) == n + 1

\* "continue" in the except clause: the loop goes on with the next item
continue_after(i, n) == i + 1

\* The PyMongoError update_one raises: a connection error when the store is
\* unreachable, a write error of this one operation otherwise
write_error(up) == IF up THEN "OperationFailure" ELSE "ServerSelectionTimeoutError"

\* "if not data: warning; return": nothing of the store is touched
SaveEmpty ==
    /\ spc = "entry"
    /\ not_data(data)
    /\ log' = Append(log, LogRecord("WARNING", "Nenhum dado para salvar", collection_name, 0, 0))
    /\ spc' = "returned"
    /\ UNCHANGED <<db, next_id, mainVars, data, collection_name, unique_keys, idx,
                   upserted_count, modified_count, results, callerVars, db_before, clean,
                   envVars>>

\* collection = db[collection_name]; the counters start at 0
SaveBegin ==
    /\ spc = "entry"
    /\ ~not_data(data)
    /\ log' = Append(log, LogRecord("INFO", "Salvando", collection_name, Len(data), 0))
    /\ upserted_count' = 0
    /\ modified_count' = 0
    /\ idx' = 1
    /\ spc' = "loop"
    /\ UNCHANGED <<db, next_id, mainVars, data, collection_name, unique_keys,
                   results, callerVars, db_before, clean,
                   envVars>>

\* (elif result.matched_count > 0: every match counts as an update)
counts_modifiedMatched(result) == result.upserted_id = 0 /\ result.matched_count > 0

\* "elif result.modified_count > 0", reached when upserted_id is None
counts_modified(result) == result.upserted_id = 0 /\ result.modified_count > 0

\* One iteration of "for item in data": update_one returns
SaveItemOk ==
    /\ spc = "loop"
    /\ idx <= Len(data)
    /\ IsDict(data[idx])
    /\ reachable
    /\ LET item == data[idx]
           result == update_one(db[collection_name],
                                filter_query(item, unique_keys), item, next_id)
       IN /\ db' = [db EXCEPT ![collection_name] = result.coll]
          /\ next_id' = IF result.upserted_id # 0 THEN next_id + 1 ELSE next_id
          /\ upserted_count' = IF result.upserted_id # 0
                               THEN upserted_count + 1 ELSE upserted_count
          /\ modified_count' = IF counts_modified(result)
                               THEN modified_count + 1 ELSE modified_count
          /\ results' = Append(results,
                               [kind |-> IF result.upserted_id # 0 THEN "upserted"
                                         ELSE IF result.modified_count > 0 THEN "modified"
                                         ELSE "unchanged",
                                target |-> result.target,
                                error |-> "none"])
    /\ idx' = idx + 1
    /\ UNCHANGED <<mainVars, spc, data, collection_name, unique_keys, log,
                   callerVars, db_before, clean,
                   envVars>>

\* One iteration of "for item in data": update_one raises PyMongoError, which
\* is logged, and the loop continues with the next item
SaveItemError ==
    /\ spc = "loop"
    /\ idx <= Len(data)
    /\ IsDict(data[idx])
    /\ log' = Append(log, LogRecord("ERROR", "Erro ao salvar documento", collection_name, 0, 0))
    /\ results' = Append(results, [kind |-> "failed", target |-> 0,
                                    error |-> write_error(reachable)])
    /\ clean' = FALSE
    /\ idx' = continue_after(idx, Len(data))
    /\ UNCHANGED <<db, next_id, mainVars, spc, data, collection_name, unique_keys,
                   upserted_count, modified_count, callerVars, db_before,
                   envVars>>

\* The loop is over: the counts are logged and the function returns
SaveEnd ==
    /\ spc = "loop"
    /\ idx > Len(data)
    /\ log' = Append(log, LogRecord("INFO", "Operacao concluida", collection_name,
                                    upserted_count, modified_count))
    /\ spc' = "returned"
    /\ UNCHANGED <<db, next_id, mainVars, data, collection_name, unique_keys, idx,
                   upserted_count, modified_count, results, callerVars, db_before, clean,
                   envVars>>

----------------------------------------------------------------------------
(* connect_to_mongo and fetch_data *)

ConnectOutcomes == {"no_uri", "handshake_failed", "ok"}

\* The handle connect_to_mongo returns, and what it logs
connect_to_mongo(outcome) ==
    [handle |-> IF outcome = "ok" THEN "Database" ELSE "None",
     log |-> <<LogRecord("INFO", "Tentando conectar", "", 0, 0)>> \o
             (CASE outcome = "no_uri" ->
                      <<LogRecord("ERROR", "MONGO_URI nao foi definida", "", 0, 0)>>
                [] outcome = "handshake_failed" ->
                      <<LogRecord("ERROR", "Erro ao conectar", "", 0, 0)>>
                [] outcome = "ok" ->
                      <<LogRecord("INFO", "Conexao estabelecida", "", 0, 0)>>)]

FetchOutcomes == {"transport_error", "http_error", "ok"}

\* (no except clause: the RequestException leaves fetch_data)
fetch_dataNoCatch(endpoint, outcome, body) ==
    [raised |-> outcome # "ok",
     ret |-> IF outcome = "ok" THEN body ELSE <<>>,
     log |-> <<LogRecord("INFO", "Buscando dados", endpoint, 0, 0)>> \o
             (IF outcome = "ok"
              THEN <<LogRecord("INFO", "Sucesso", endpoint, Len(body), 0)>>
              ELSE <<>>)]

\* (the except clause logs nothing)
fetch_dataSilent(endpoint, outcome, body) ==
    [raised |-> FALSE,
     ret |-> IF outcome = "ok" THEN body ELSE <<>>,
     log |-> <<LogRecord("INFO", "Buscando dados", endpoint, 0, 0)>> \o
             (IF outcome = "ok"
              THEN <<LogRecord("INFO", "Sucesso", endpoint, Len(body), 0)>>
              ELSE <<>>)]

\* The list fetch_data returns, what it logs, and whether an exception leaves
\* it (the RequestException of a failed request is caught); body is the
\* decoded response
fetch_data(endpoint, outcome, body) ==
    [raised |-> FALSE,
     ret |-> IF outcome = "ok" THEN body ELSE <<>>,
     log |-> <<LogRecord("INFO", "Buscando dados", endpoint, 0, 0)>> \o
             (IF outcome = "ok"
              THEN <<LogRecord("INFO", "Sucesso", endpoint, Len(body), 0)>>
              ELSE <<LogRecord("ERROR", "Erro ao buscar dados", endpoint, 0, 0)>>)]

----------------------------------------------------------------------------
(* main *)

saveVars == <<spc, data, collection_name, unique_keys, idx, upserted_count,
              modified_count, results>>

\* db = connect_to_mongo(...); if not db: error, return
MainConnect ==
    /\ pc = "connect"
    /\ \E outcome \in ConnectOutcomes :
         LET c == connect_to_mongo(outcome) IN
         /\ db_handle' = c.handle
         /\ IF c.handle = "None"
            THEN /\ log' = log \o c.log \o
                           <<LogRecord("ERROR", "Finalizando script", "", 0, 0)>>
                 /\ pc' = "done"
            ELSE /\ log' = log \o c.log
                 /\ pc' = "fetch"
    /\ UNCHANGED <<db, next_id, job, fetched, fetch_outcome, saveVars, callerVars, db_before, clean,
                   envVars>>

\* x_data = fetch_data(endpoint, {"session_key": SESSION_KEY_DEMO}); an
\* exception that leaves fetch_data ends main
MainFetch ==
    /\ pc = "fetch"
    /\ \E outcome \in FetchOutcomes, body \in FetchBodies :
         LET r == fetch_data(Jobs[job].name, outcome, body) IN
         /\ outcome # "ok" => body = <<>>
         /\ fetched' = IF r.raised THEN fetched ELSE r.ret
         /\ fetch_outcome' = outcome
         /\ log' = log \o r.log
         /\ pc' = IF r.raised THEN "crashed" ELSE "save"
    /\ UNCHANGED <<db, next_id, job, db_handle, saveVars, callerVars, db_before, clean,
                   envVars>>

\* save_to_collection(db, x_data, name, keys) is entered
MainSave ==
    /\ pc = "save"
    /\ data' = fetched
    /\ collection_name' = Jobs[job].name
    /\ unique_keys' = Jobs[job].keys
    /\ spc' = "entry"
    /\ results' = <<>>
    /\ idx' = 0
    /\ upserted_count' = 0
    /\ modified_count' = 0
    /\ db_before' = db[Jobs[job].name]
    /\ clean' = TRUE
    /\ pc' = "in_save"
    /\ UNCHANGED <<db, next_id, job, db_handle, fetched, fetch_outcome, log, callerVars,
                   envVars>>

\* save_to_collection returned; main goes on to the next job
MainNextJob ==
    /\ pc = "in_save"
    /\ spc = "returned"
    /\ job < Len(Jobs)
    /\ job' = job + 1
    /\ pc' = "fetch"
    /\ spc' = "idle"
    /\ UNCHANGED <<db, next_id, db_handle, fetched, fetch_outcome, data, collection_name,
                   unique_keys, idx, upserted_count, modified_count, results, log,
                   callerVars, db_before, clean,
                   envVars>>

\* The third save_to_collection returned; main logs the end and returns
MainFinish ==
    /\ pc = "in_save"
    /\ spc = "returned"
    /\ job = Len(Jobs)
    /\ log' = Append(log, LogRecord("INFO", "Processo Finalizado", "", 0, 0))
    /\ pc' = "done"
    /\ spc' = "idle"
    /\ UNCHANGED <<db, next_id, job, db_handle, fetched, fetch_outcome, data,
                   collection_name, unique_keys, idx, upserted_count, modified_count,
                   results, callerVars, db_before, clean,
                   envVars>>

\* The store becomes unreachable while save_to_collection is in its loop, and
\* stays so
StoreDown ==
    /\ pc = "in_save"
    /\ spc = "loop"
    /\ idx <= Len(data)
    /\ reachable
    /\ reachable' = FALSE
    /\ UNCHANGED <<db, next_id, mainVars, saveVars, log, callerVars, db_before, clean,
                   found, others>>

EmptyDb == [c \in Collections |-> <<>>]

Init ==
    /\ db = EmptyDb
    /\ next_id = 1
    /\ pc = "connect"
    /\ job = 1
    /\ db_handle = "None"
    /\ fetched = <<>>
    /\ fetch_outcome = "none"
    /\ spc = "idle"
    /\ data = <<>>
    /\ collection_name = Jobs[1].name
    /\ unique_keys = Jobs[1].keys
    /\ idx = 0
    /\ upserted_count = 0
    /\ modified_count = 0
    /\ results = <<>>
    /\ log = <<>>
    /\ run = 0
    /\ calls = 0
    /\ db_before = <<>>
    /\ db_first = <<>>
    /\ clean = TRUE
    /\ reachable = TRUE
    /\ found = NotLooked
    /\ others = 0

Next ==
    \/ MainConnect
    \/ MainFetch
    \/ MainSave
    \/ SaveEmpty
    \/ SaveBegin
    \/ SaveItemOk
    \/ SaveItemError
    \/ SaveEnd
    \/ StoreDown
    \/ MainNextJob
    \/ MainFinish

Spec == Init /\ [][Next]_vars

----------------------------------------------------------------------------
(* main with the truth test of line 134 as the installed driver decides it: *)
(* "not db" on a Database object is False where the object has the default  *)
(* truth value (PyMongo 3), and raises NotImplementedError where Database    *)
(* defines __bool__ to raise (PyMongo 4 and later).                          *)

DriverTruthValues == {"truthy", "raises"}

\* "not db": "True" for None; for a Database "False" or an exception
not_db(handle, truth) ==
    IF handle = "None" THEN "True"
    ELSE IF truth = "truthy" THEN "False" ELSE "raises"

\* db = connect_to_mongo(...); if not db: error, return
MainConnectAnyDriver ==
    /\ pc = "connect"
    /\ \E outcome \in ConnectOutcomes, truth \in DriverTruthValues :
         LET c == connect_to_mongo(outcome)
             t == not_db(c.handle, truth)
         IN /\ db_handle' = c.handle
            /\ log' = IF t = "True"
                      THEN log \o c.log \o
                           <<LogRecord("ERROR", "Finalizando script", "", 0, 0)>>
                      ELSE log \o c.log
            /\ pc' = CASE t = "True" -> "done"
                       [] t = "False" -> "fetch"
                       [] t = "raises" -> "crashed"
    /\ UNCHANGED <<db, next_id, job, fetched, fetch_outcome, saveVars, callerVars,
                   db_before, clean, envVars>>

NextGate ==
    \/ MainConnectAnyDriver
    \/ MainFetch
    \/ MainSave
    \/ SaveEmpty
    \/ SaveBegin
    \/ SaveItemOk
    \/ SaveItemError
    \/ SaveEnd
    \/ MainNextJob
    \/ MainFinish

SpecGate == Init /\ [][NextGate]_vars

----------------------------------------------------------------------------
(* main when the API may answer a successful request with JSON that is no   *)
(* list of records: fetch_data returns response.json() as it is.            *)

\* x_data = fetch_data(...), the decoded response being any JSON value
MainFetchAnyBody ==
    /\ pc = "fetch"
    /\ \E outcome \in FetchOutcomes, body \in FetchBodies \cup MalformedBodies :
         LET r == fetch_data(Jobs[job].name, outcome, body) IN
         /\ outcome # "ok" => body = <<>>
         /\ fetched' = IF r.raised THEN fetched ELSE r.ret
         /\ fetch_outcome' = outcome
         /\ log' = log \o r.log
         /\ pc' = IF r.raised THEN "crashed" ELSE "save"
    /\ UNCHANGED <<db, next_id, job, db_handle, saveVars, callerVars, db_before, clean,
                   envVars>>

\* "item.get(key)" on an item that is no dictionary: AttributeError, raised
\* outside the try block and caught nowhere, ends save_to_collection and main
SaveItemNotDict ==
    /\ spc = "loop"
    /\ idx <= Len(data)
    /\ ~IsDict(data[idx])
    /\ spc' = "raised"
    /\ pc' = "crashed"
    /\ UNCHANGED <<db, next_id, job, db_handle, fetched, fetch_outcome, data,
                   collection_name, unique_keys, idx, upserted_count, modified_count,
                   results, log, callerVars, db_before, clean, envVars>>

NextBody ==
    \/ MainConnect
    \/ MainFetchAnyBody
    \/ MainSave
    \/ SaveEmpty
    \/ SaveBegin
    \/ SaveItemOk
    \/ SaveItemError
    \/ SaveItemNotDict
    \/ SaveEnd
    \/ MainNextJob
    \/ MainFinish

SpecBody == Init /\ [][NextBody]_vars

----------------------------------------------------------------------------
(* A caller of save_to_collection other than main: it saves batch after     *)
(* batch into one of the three collections (with that collection's key      *)
(* list), and may pass the batch it has just applied once more.             *)

\* save_to_collection(db, batch, name, keys) with a new batch
CallNew ==
    /\ pc = "caller"
    /\ spc \in {"idle", "returned"}
    /\ calls < MaxCalls
    /\ \E batch \in Batches : data' = batch
    /\ db_before' = db[collection_name]
    /\ spc' = "entry"
    /\ results' = <<>>
    /\ idx' = 0
    /\ upserted_count' = 0
    /\ modified_count' = 0
    /\ log' = <<>>
    /\ run' = 1
    /\ calls' = calls + 1
    /\ db_first' = <<>>
    /\ clean' = TRUE
    /\ UNCHANGED <<db, next_id, mainVars, collection_name, unique_keys,
                   envVars>>

\* save_to_collection called again with the arguments of the call that just returned
CallAgain ==
    /\ pc = "caller"
    /\ spc = "returned"
    /\ run < MaxRuns
    /\ calls < MaxCalls
    /\ spc' = "entry"
    /\ results' = <<>>
    /\ idx' = 0
    /\ upserted_count' = 0
    /\ modified_count' = 0
    /\ log' = <<>>
    /\ run' = run + 1
    /\ calls' = calls + 1
    /\ db_before' = db[collection_name]
    /\ db_first' = IF run = 1 THEN db[collection_name] ELSE db_first
    /\ UNCHANGED <<db, next_id, mainVars, data, collection_name, unique_keys, clean,
                   envVars>>

InitSave ==
    /\ db = EmptyDb
    /\ next_id = 1
    /\ pc = "caller"
    /\ job = 1
    /\ db_handle = "Database"
    /\ fetched = <<>>
    /\ fetch_outcome = "none"
    /\ spc = "idle"
    /\ data = <<>>
    /\ \E j \in DOMAIN Jobs :
         /\ collection_name = Jobs[j].name
         /\ unique_keys = Jobs[j].keys
    /\ idx = 0
    /\ upserted_count = 0
    /\ modified_count = 0
    /\ results = <<>>
    /\ log = <<>>
    /\ run = 0
    /\ calls = 0
    /\ db_before = <<>>
    /\ db_first = <<>>
    /\ clean = TRUE
    /\ reachable = TRUE
    /\ found = NotLooked
    /\ others = 0

NextSave ==
    \/ CallNew
    \/ CallAgain
    \/ SaveEmpty
    \/ SaveBegin
    \/ SaveItemOk
    \/ SaveItemError
    \/ SaveEnd

SpecSave == InitSave /\ [][NextSave]_vars

----------------------------------------------------------------------------
(* A collection other clients have written to: they insert documents of     *)
(* their own (insert_one, no key check), then save_to_collection is called  *)
(* once on what they left.                                                  *)

\* insert_one(record) by another client, before save_to_collection is called
OutOfBandInsert ==
    /\ pc = "caller"
    /\ spc = "idle"
    /\ others < MaxOther
    /\ \E r \in Records :
         db' = [db EXCEPT ![collection_name] = Append(@, [_id |-> next_id, f |-> r])]
    /\ next_id' = next_id + 1
    /\ others' = others + 1
    /\ UNCHANGED <<mainVars, saveVars, log, callerVars, db_before, clean, reachable, found>>

\* The one save_to_collection call on the collection the other clients left
CallCorrupted ==
    /\ calls = 0
    /\ others > 0
    /\ CallNew

NextCorrupt ==
    \/ OutOfBandInsert
    \/ CallCorrupted
    \/ SaveEmpty
    \/ SaveBegin
    \/ SaveItemOk
    \/ SaveItemError
    \/ SaveEnd

SpecCorrupt == InitSave /\ [][NextCorrupt]_vars

----------------------------------------------------------------------------
(* Two runs of save_to_collection on one collection at the same time. The   *)
(* collection has no unique index (the code creates none), so the store      *)
(* runs an upsert as a lookup followed by a write: the write is atomic on    *)
(* the document it touches, but nothing holds the lookup's answer "no such   *)
(* document" until the insert. The run followed here takes the two steps     *)
(* apart; the other run's update_one calls fall wherever they fall.          *)

\* The one save_to_collection call of the run followed here
CallOnce ==
    /\ calls = 0
    /\ CallNew

\* update_one, first half: the store looks the filter up
SaveItemFind ==
    /\ pc = "caller"
    /\ spc = "loop"
    /\ idx <= Len(data)
    /\ ~found.looked
    /\ LET coll == db[collection_name]
           m == FirstMatch(coll, filter_query(data[idx], unique_keys))
       IN found' = [looked |-> TRUE, id |-> IF m = 0 THEN 0 ELSE coll[m]._id]
    /\ UNCHANGED <<db, next_id, mainVars, saveVars, log, callerVars, db_before, clean,
                   reachable, others>>

\* What the second half of update_one does with the lookup's answer: $set on
\* the document found, or the insert of a new document
apply_found(coll, fnd, fq, item, id) ==
    IF fnd.id = 0
    THEN [coll |-> Append(coll, UpsertDoc(fq, item, id)),
          matched_count |-> 0, modified_count |-> 0, upserted_id |-> id, target |-> id]
    ELSE LET m == CHOOSE d \in DOMAIN coll : coll[d]._id = fnd.id
             newf == SetFields(coll[m].f, item)
         IN [coll |-> [coll EXCEPT ![m].f = newf],
             matched_count |-> 1,
             modified_count |-> IF newf = coll[m].f THEN 0 ELSE 1,
             upserted_id |-> 0,
             target |-> fnd.id]

\* update_one, second half, and the rest of the loop body
SaveItemApply ==
    /\ pc = "caller"
    /\ spc = "loop"
    /\ idx <= Len(data)
    /\ found.looked
    /\ LET item == data[idx]
           result == apply_found(db[collection_name], found,
                                 filter_query(item, unique_keys), item, next_id)
       IN /\ db' = [db EXCEPT ![collection_name] = result.coll]
          /\ next_id' = IF result.upserted_id # 0 THEN next_id + 1 ELSE next_id
          /\ upserted_count' = IF result.upserted_id # 0
                               THEN upserted_count + 1 ELSE upserted_count
          /\ modified_count' = IF counts_modified(result)
                               THEN modified_count + 1 ELSE modified_count
          /\ results' = Append(results,
                               [kind |-> IF result.upserted_id # 0 THEN "upserted"
                                         ELSE IF result.modified_count > 0 THEN "modified"
                                         ELSE "unchanged",
                                target |-> result.target,
                                error |-> "none"])
    /\ idx' = idx + 1
    /\ found' = NotLooked
    /\ UNCHANGED <<mainVars, spc, data, collection_name, unique_keys, log,
                   callerVars, db_before, clean, reachable, others>>

\* One update_one call of the other run, on any record
OtherUpsert ==
    /\ pc = "caller"
    /\ spc = "loop"
    /\ others < MaxOther
    /\ \E r \in Records :
         LET result == update_one(db[collection_name],
                                  filter_query(r, unique_keys), r, next_id)
         IN /\ db' = [db EXCEPT ![collection_name] = result.coll]
            /\ next_id' = IF result.upserted_id # 0 THEN next_id + 1 ELSE next_id
    /\ others' = others + 1
    /\ UNCHANGED <<mainVars, saveVars, log, callerVars, db_before, clean, reachable, found>>

NextConcurrent ==
    \/ CallOnce
    \/ SaveEmpty
    \/ SaveBegin
    \/ SaveItemFind
    \/ SaveItemApply
    \/ SaveEnd
    \/ OtherUpsert

SpecConcurrent == InitSave /\ [][NextConcurrent]_vars

----------------------------------------------------------------------------
(* Properties *)

Target == db[collection_name]

\* the documents of a collection that carry the identity of a filter
DocsMatching(coll, fq) == {i \in DOMAIN coll : Matches(coll[i], fq)}

\* the documents of a collection with a given _id
DocsWithId(coll, id) == {i \in DOMAIN coll : coll[i]._id = id}

\* the tuple of key-field values of a document, read as item.get reads them
KeyTuple(doc, keys) == [k \in Range(keys) |-> Get(doc.f, k)]

Written(i) == results[i].kind # "failed"

LogCount(level, msg) ==
    Cardinality({i \in DOMAIN log : log[i].level = level /\ log[i].msg = msg})

\* C1: when a batch is applied again right after it was applied, and no write
\* of either application failed, the second application inserts nothing
\* (upserted count 0), updates at most N documents, and leaves the number of
\* documents of the collection as it was before the second application.
C1_IdempotentCounts ==
    (pc = "caller" /\ spc = "returned" /\ run >= 2 /\ clean) =>
        /\ upserted_count = 0
        /\ \A i \in DOMAIN results : results[i].kind # "upserted"
        /\ modified_count <= Len(data)
        /\ Len(Target) = Len(db_before)

C1_Witness ==
    /\ pc = "caller" /\ spc = "returned" /\ run >= 2 /\ clean
    /\ Len(data) = 2
    /\ Len(results) = 2
    /\ Len(Target) = 2
    /\ modified_count = 0

\* C2: the contents of the collection after the batch has been applied k >= 2
\* times in a row (no write failing) are the contents after the first
\* application.
C2_IdempotentState ==
    (pc = "caller" /\ spc = "returned" /\ run >= 2 /\ clean) => Target = db_first

C2_Witness ==
    /\ pc = "caller" /\ spc = "returned" /\ run >= 3 /\ clean
    /\ Len(data) = 2
    /\ filter_query(data[1], unique_keys) = filter_query(data[2], unique_keys)
    /\ data[1] # data[2]
    /\ modified_count = 2
    /\ Target = db_first

\* C3: in a collection that started empty and was only written with one key
\* list, no two documents have the same tuple of key-field values, and every
\* write of a record lands in the one document that carries the record's
\* key-field values, so two records with the same key-field values are
\* written to the same document.
C3_OneDocumentPerIdentity ==
    pc = "caller" =>
        /\ \A i, j \in DOMAIN Target :
              i # j => KeyTuple(Target[i], unique_keys) # KeyTuple(Target[j], unique_keys)
        /\ \A i \in DOMAIN results :
              Written(i) =>
                 /\ \E d \in DOMAIN Target :
                       /\ Target[d]._id = results[i].target
                       /\ KeyTuple(Target[d], unique_keys) = filter_query(data[i], unique_keys)
                 /\ \A j \in DOMAIN results :
                       (Written(j) /\ filter_query(data[j], unique_keys)
                                        = filter_query(data[i], unique_keys))
                          => results[j].target = results[i].target

C3_Witness ==
    /\ pc = "caller" /\ spc = "returned"
    /\ Len(results) = 2 /\ Written(1) /\ Written(2)
    /\ data[1]["time"] # data[2]["time"]
    /\ filter_query(data[1], unique_keys) = filter_query(data[2], unique_keys)
    /\ results[1].target = results[2].target
    /\ Len(Target) = 2

\* C4: when save_to_collection has returned, for the last record of each
\* identity in the batch (if its write did not fail) exactly one stored
\* document carries that identity, and every field the record carries has the
\* record's value in that document.
C4_LastRecordWins ==
    (pc = "caller" /\ spc = "returned") =>
        \A i \in DOMAIN results :
            ( /\ Written(i)
              /\ \A j \in DOMAIN data :
                    j > i => filter_query(data[j], unique_keys)
                               # filter_query(data[i], unique_keys) )
            => LET ds == DocsMatching(Target, filter_query(data[i], unique_keys)) IN
               /\ Cardinality(ds) = 1
               /\ \A d \in ds : \A f \in Fields :
                     data[i][f] # Absent => Target[d].f[f] = data[i][f]

C4_Witness ==
    /\ pc = "caller" /\ spc = "returned"
    /\ Len(results) = 2 /\ Written(1) /\ Written(2)
    /\ filter_query(data[1], unique_keys) = filter_query(data[2], unique_keys)
    /\ data[1]["time"] = "912" /\ data[2]["time"] = "908"
    /\ Len(Target) = 1
    /\ Target[1].f["time"] = "908"

\* C5: when a write of a batch fails, save_to_collection still attempts every
\* record of the batch and returns; every record whose write did not fail is
\* stored, and each failure is logged as one error of that write.
C5_PartialFailureIsolation ==
    (spc = "returned" /\ ~not_data(data)) =>
        /\ Len(results) = Len(data)
        /\ \A i \in DOMAIN results :
              Written(i) =>
                 \E d \in DocsWithId(Target, results[i].target) :
                     Matches(Target[d], filter_query(data[i], unique_keys))
        /\ pc = "caller" =>
              LogCount("ERROR", "Erro ao salvar documento")
                 = Cardinality({i \in DOMAIN results : ~Written(i)})
        /\ log[Len(log)].msg = "Operacao concluida"

C5_Witness ==
    /\ pc = "caller" /\ spc = "returned"
    /\ Len(results) = 2
    /\ ~Written(1) /\ Written(2)
    /\ results[2].kind = "upserted"
    /\ LogCount("ERROR", "Erro ao salvar documento") = 1

\* C6: a call with an empty record list issues no store operation, leaves the
\* store as it was, and returns after logging one warning and nothing else.
C6_EmptyInputShortCircuit ==
    (pc = "caller" /\ spc = "returned" /\ data = <<>>) =>
        /\ results = <<>>
        /\ Target = db_before
        /\ log = <<LogRecord("WARNING", "Nenhum dado para salvar", collection_name, 0, 0)>>

C6_Witness ==
    /\ pc = "caller" /\ spc = "returned" /\ data = <<>>
    /\ Len(Target) > 0
    /\ log = <<LogRecord("WARNING", "Nenhum dado para salvar", collection_name, 0, 0)>>

JobLog(name) == SelectSeq(log, LAMBDA r : r.name = name)

HasLog(level, msg, name) ==
    \E i \in DOMAIN log : log[i].level = level /\ log[i].msg = msg /\ log[i].name = name

\* C7: in main, no fetch error and no store error ends the run: main stops
\* only when it is done, and when it is done after a successful connection
\* each of the three jobs was fetched and its save_to_collection call returned.
C7_MultiJobIsolation ==
    /\ pc # "crashed"
    /\ pc # "done" => ENABLED Next
    /\ (pc = "done" /\ db_handle = "Database") =>
          \A j \in DOMAIN Jobs :
              /\ HasLog("INFO", "Buscando dados", Jobs[j].name)
              /\ \/ HasLog("WARNING", "Nenhum dado para salvar", Jobs[j].name)
                 \/ HasLog("INFO", "Operacao concluida", Jobs[j].name)

C7_Witness ==
    /\ pc = "done" /\ db_handle = "Database"
    /\ HasLog("ERROR", "Erro ao buscar dados", "sessions")
    /\ HasLog("ERROR", "Erro ao salvar documento", "drivers")
    /\ HasLog("INFO", "Operacao concluida", "laps")
    /\ Len(db["laps"]) = 2

\* C8 as stated: after a record is written onto an existing document, the
\* document's fields are exactly the record's fields (a field the record
\* does not carry is dropped).
C8_FullReplace ==
    (pc = "caller" /\ results # <<>>) =>
        LET i == Len(results) IN
        results[i].kind \in {"modified", "unchanged"} =>
            \A d \in DocsWithId(Target, results[i].target) : Target[d].f = data[i]

\* C8 amended: a write onto an existing document is a merge: every field the
\* record carries takes the record's value, and every field the record does
\* not carry keeps the value the document had.
C8_MergeOnMatch ==
    [][ (pc = "caller" /\ Len(results') = Len(results) + 1
           /\ results'[Len(results')].kind \in {"modified", "unchanged"}) =>
          LET item == data[idx]
              id == results'[Len(results')].target
          IN /\ DocsWithId(db[collection_name], id) # {}
             /\ \A d \in DocsWithId(db[collection_name], id) :
                   /\ db'[collection_name][d]._id = id
                   /\ \A f \in Fields :
                         db'[collection_name][d].f[f] =
                            IF item[f] # Absent THEN item[f]
                            ELSE db[collection_name][d].f[f] ]_vars

C8_Witness ==
    /\ pc = "caller" /\ results # <<>>
    /\ results[Len(results)].kind = "modified"
    /\ data[Len(results)]["driver_number"] = Absent
    /\ data[Len(results)]["time"] = "912"
    /\ \E d \in DocsWithId(Target, results[Len(results)].target) :
          /\ Target[d].f["driver_number"] = "44"
          /\ Target[d].f["time"] = "912"

MissesKey(item, keys) == \E k \in Range(keys) : item[k] = Absent

\* C9 as stated: a record that lacks one of the unique_keys fields is not
\* written; its write is a failed operation.
C9_MissingKeyRejected ==
    pc = "caller" =>
        \A i \in DOMAIN results :
            MissesKey(data[i], unique_keys) => results[i].kind = "failed"

\* C9 amended: a record that lacks a unique_keys field is written like any
\* other, under the identity that has None for the missing field: the document
\* it lands in has no value (null or nothing) for that field, and records that
\* lack the field and agree on the other key fields land in one document.
C9_MissingKeyNullIdentity ==
    pc = "caller" =>
        \A i \in DOMAIN results :
            (Written(i) /\ MissesKey(data[i], unique_keys)) =>
                /\ \E d \in DocsWithId(Target, results[i].target) :
                      \A k \in Range(unique_keys) :
                          Target[d].f[k] \in (IF data[i][k] = Absent
                                              THEN {Null, Absent} ELSE {data[i][k]})
                /\ \A j \in DOMAIN results :
                      ( /\ Written(j)
                        /\ \A k \in Range(unique_keys) : data[j][k] = data[i][k] )
                      => results[j].target = results[i].target

C9_Witness ==
    /\ pc = "caller" /\ spc = "returned"
    /\ collection_name = "drivers"
    /\ Len(results) = 2 /\ Written(1) /\ Written(2)
    /\ data[1]["driver_number"] = Absent /\ data[2]["driver_number"] = Absent
    /\ data[1]["time"] # data[2]["time"]
    /\ results[1].target = results[2].target
    /\ Len(Target) = 2

FetchFailed == fetch_outcome \in {"transport_error", "http_error"}

\* C10 as stated: what fetch_data hands its caller after a failed request
\* differs from what it hands it after a successful request with zero records.
C10_FetchFailureDistinct ==
    (pc = "save" /\ FetchFailed) => fetched # fetch_data(Jobs[job].name, "ok", <<>>).ret

\* C10 amended: a failed fetch and a successful fetch of zero records hand the
\* caller the same empty list and leave the store alone; they, and a job whose
\* writes all failed, differ only in the records the job logs.
C10_DistinguishedOnlyByLog ==
    (pc = "in_save" /\ spc = "returned") =>
        LET name == Jobs[job].name IN
        /\ FetchFailed =>
              /\ fetched = <<>>
              /\ Target = db_before
              /\ JobLog(name) = << LogRecord("INFO", "Buscando dados", name, 0, 0),
                                   LogRecord("ERROR", "Erro ao buscar dados", name, 0, 0),
                                   LogRecord("WARNING", "Nenhum dado para salvar", name, 0, 0) >>
        /\ (fetch_outcome = "ok" /\ fetched = <<>>) =>
              /\ Target = db_before
              /\ JobLog(name) = << LogRecord("INFO", "Buscando dados", name, 0, 0),
                                   LogRecord("INFO", "Sucesso", name, 0, 0),
                                   LogRecord("WARNING", "Nenhum dado para salvar", name, 0, 0) >>
        /\ (fetched # <<>> /\ \A i \in DOMAIN results : ~Written(i)) =>
              /\ Target = db_before
              /\ JobLog(name) =
                    << LogRecord("INFO", "Buscando dados", name, 0, 0),
                       LogRecord("INFO", "Sucesso", name, Len(fetched), 0),
                       LogRecord("INFO", "Salvando", name, Len(fetched), 0) >>
                    \o [i \in 1..Len(fetched) |->
                          LogRecord("ERROR", "Erro ao salvar documento", name, 0, 0)]
                    \o << LogRecord("INFO", "Operacao concluida", name, 0, 0) >>

C10_Witness ==
    /\ pc = "in_save" /\ spc = "returned" /\ job = 3
    /\ Len(fetched) = 2
    /\ \A i \in DOMAIN results : ~Written(i)
    /\ Len(results) = 2
    /\ HasLog("ERROR", "Erro ao buscar dados", "sessions")
    /\ \E i \in DOMAIN log : log[i] = LogRecord("INFO", "Sucesso", "drivers", 0, 0)

Unreachable(i) == results[i].error = "ServerSelectionTimeoutError"

\* C11 as stated: when the store is unreachable during a batch, no record is
\* given a failure of its own; the batch ends with one fatal error.
C11_OutageIsFatal ==
    pc = "in_save" => \A i \in DOMAIN results : ~Unreachable(i)

\* C11 amended: when the store becomes unreachable during a batch, the write
\* of every remaining record fails on its own and is logged as one error, the
\* loop still visits every record, and save_to_collection logs its counts and
\* returns normally.
C11_OutageIsPerOperation ==
    /\ pc = "in_save" =>
          \A i \in DOMAIN results :
              Unreachable(i) => \A j \in DOMAIN results : j > i => Unreachable(j)
    /\ (pc = "in_save" /\ spc = "returned" /\ ~not_data(data)) =>
          /\ Len(results) = Len(data)
          /\ Cardinality({i \in DOMAIN log :
                             log[i] = LogRecord("ERROR", "Erro ao salvar documento",
                                                collection_name, 0, 0)})
                = Cardinality({i \in DOMAIN results : ~Written(i)})
          /\ log[Len(log)] = LogRecord("INFO", "Operacao concluida", collection_name,
                                       upserted_count, modified_count)

C11_Witness ==
    /\ pc = "in_save" /\ spc = "returned" /\ ~reachable
    /\ job = 2
    /\ Len(results) = 2
    /\ Written(1)
    /\ Unreachable(2)
    /\ log[Len(log)] = LogRecord("INFO", "Operacao concluida", "drivers", 1, 0)

\* the first document, in natural order, that matches the filter
FirstOf(ms) == CHOOSE m \in ms : \A d \in ms : m <= d

\* C12 as stated: a record whose key filter matches more than one stored
\* document is not written to any of them; its write is a failed operation.
C12_AmbiguousMatchFails ==
    pc = "caller" =>
        \A i \in DOMAIN results :
            Cardinality(DocsMatching(Target, filter_query(data[i], unique_keys))) > 1
               => results[i].kind = "failed"

\* C12 amended: when more than one stored document matches the record's key
\* filter and the store answers, update_one writes the record onto the first
\* of them, leaves the others as they are, and the write is an ordinary update:
\* nothing is logged and nothing raised.
C12_FirstMatchUpdated ==
    [][ LET coll == db[collection_name]
            ms == DocsMatching(coll, filter_query(data[idx], unique_keys))
        IN (pc = "caller" /\ spc = "loop" /\ idx' = idx + 1 /\ log' = log
              /\ Cardinality(ms) > 1) =>
             LET m == FirstOf(ms)
                 r == results'[Len(results')]
             IN /\ r.kind \in {"modified", "unchanged"}
                /\ r.target = coll[m]._id
                /\ Len(db'[collection_name]) = Len(coll)
                /\ db'[collection_name][m].f = SetFields(coll[m].f, data[idx])
                /\ \A d \in DOMAIN coll : d # m => db'[collection_name][d] = coll[d] ]_vars

C12_Witness ==
    /\ pc = "caller" /\ spc = "loop" /\ Len(results) = 1
    /\ results[1].kind = "modified"
    /\ DocsMatching(Target, filter_query(data[1], unique_keys)) = {1, 2}
    /\ Target[1]._id = results[1].target
    /\ Target[1].f["time"] = "912"
    /\ Target[2].f["time"] = "908"
    /\ data[1]["time"] = "912"

KindCount(kind) == Cardinality({i \in DOMAIN results : results[i].kind = kind})

\* C13 as stated: when save_to_collection returns from a non-empty batch of N
\* records, inserted + updated + failed = N (the failures being the logged
\* errors, an unchanged match counting as updated).
C13_CountsAddUp ==
    (pc = "caller" /\ spc = "returned" /\ ~not_data(data)) =>
        upserted_count + modified_count
           + LogCount("ERROR", "Erro ao salvar documento") = Len(data)

\* C13 amended: the function counts the inserted records and the records that
\* matched and changed a document; a failed write is only logged, and a record
\* that matched without changing anything is counted nowhere, so the two
\* counters and the logged errors fall short of N by the unchanged matches.
C13_CountsOmitUnchanged ==
    (pc = "caller" /\ spc = "returned" /\ ~not_data(data)) =>
        /\ upserted_count = KindCount("upserted")
        /\ modified_count = KindCount("modified")
        /\ LogCount("ERROR", "Erro ao salvar documento") = KindCount("failed")
        /\ upserted_count + modified_count + KindCount("failed") + KindCount("unchanged")
              = Len(data)
        /\ log[Len(log)] = LogRecord("INFO", "Operacao concluida", collection_name,
                                     upserted_count, modified_count)

C13_Witness ==
    /\ pc = "caller" /\ spc = "returned"
    /\ Len(data) = 2
    /\ results[1].kind = "unchanged"
    /\ results[2].kind = "failed"
    /\ upserted_count = 0 /\ modified_count = 0

Rank(p) ==
    CASE p = "connect" -> 0
      [] p = "fetch"   -> 1
      [] p = "save"    -> 2
      [] p = "in_save" -> 3
      [] OTHER         -> 4

C14_State ==
    /\ spc \in {"entry", "loop"} =>
          /\ pc = "in_save"
          /\ data = fetched
          /\ collection_name = Jobs[job].name
    /\ spc = "loop" => Len(results) = idx - 1
    /\ (pc = "in_save" /\ spc = "returned") => Len(results) = Len(data)
    /\ pc \in {"fetch", "save", "done"} =>
          /\ spc = "idle"
          /\ Len(results) = Len(data)

C14_Step ==
    /\ job' >= job
    /\ job' = job => Rank(pc') >= Rank(pc)
    /\ job' # job =>
          /\ job' = job + 1
          /\ pc = "in_save" /\ spc = "returned"
          /\ pc' = "fetch"
    /\ (results' # results /\ results' # <<>>) =>
          /\ pc = "in_save" /\ spc = "loop"
          /\ fetch_outcome = "ok"
          /\ Len(results') = idx
          /\ results'[idx].kind # "failed" =>
                \E d \in DocsWithId(db'[collection_name], results'[idx].target) :
                    Matches(db'[collection_name][d], filter_query(fetched[idx], unique_keys))
    /\ db' # db => (Len(results') = Len(results) + 1 /\ spc = "loop")
    /\ (spc # "returned" /\ spc' = "returned") => Len(results) = Len(data)

\* C14: each job goes forward only, from its fetch to its save to the next
\* job; a write happens only inside the job's save_to_collection call, on the
\* list its fetch returned, record by record in input order, and the call
\* returns (and the next job starts) only when a write was attempted for every
\* record.
C14_JobLifecycle == []C14_State /\ [][C14_Step]_vars

C14_Witness ==
    /\ pc = "done" /\ job = 3
    /\ Len(results) = 2 /\ Written(1) /\ ~Written(2)
    /\ Len(db["sessions"]) = 1
    /\ Len(db["drivers"]) = 2
    /\ Len(db["laps"]) = 1

\* C15: main runs the three jobs if and only if connect_to_mongo returned a
\* handle; with no handle (URI unset or handshake failed, one attempt only)
\* main ends without a fetch and without a write; with a handle it goes on to
\* the jobs and ends with all three run.
C15_ConnectionGate ==
    pc # "connect" =>
        /\ LogCount("INFO", "Tentando conectar") = 1
        /\ db_handle = "None" =>
              /\ pc = "done"
              /\ LogCount("INFO", "Buscando dados") = 0
              /\ db = EmptyDb
              /\ results = <<>>
        /\ db_handle = "Database" =>
              /\ pc # "crashed"
              /\ pc = "done" =>
                    \A j \in DOMAIN Jobs : HasLog("INFO", "Buscando dados", Jobs[j].name)

\* C16: when two runs upsert records with the same key-field values at the
\* same time, every interleaving ends with exactly one stored document for
\* each identity the run wrote, holding for each field the value one of the
\* writers gave it.
C16_ConcurrentUpsertsConsistent ==
    (pc = "caller" /\ spc = "returned") =>
        \A i \in DOMAIN data :
            Cardinality(DocsMatching(Target, filter_query(data[i], unique_keys))) = 1

\* C17: whatever the HTTP request does, fetch_data returns a list of
\* dictionaries (the empty list after an error) and raises nothing, so every
\* item save_to_collection iterates over in main is a dictionary and main is
\* not ended by an item.
C17_FetchReturnsRecords ==
    /\ pc # "crashed"
    /\ \A i \in DOMAIN fetched : IsDict(fetched[i])
    /\ (pc = "save" /\ FetchFailed) => fetched = <<>>
    /\ spc = "loop" => \A i \in DOMAIN data : IsDict(data[i])

\* The documents of coll that some record of the batch selects
Selected(coll, batch, keys) ==
    {i \in DOMAIN coll :
        \E j \in DOMAIN batch : Matches(coll[i], filter_query(batch[j], keys))}

\* From its entry on, a call has kept every document it found, in place, has
\* left those no record selects as they were, and has added at most one
\* document per distinct key tuple of the batch
C18_State ==
    spc # "idle" =>
        /\ Len(Target) >= Len(db_before)
        /\ \A i \in DOMAIN db_before : Target[i]._id = db_before[i]._id
        /\ \A i \in DOMAIN db_before :
              i \notin Selected(db_before, data, unique_keys) => Target[i] = db_before[i]
        /\ Len(Target) - Len(db_before)
              <= Cardinality({filter_query(data[j], unique_keys) : j \in DOMAIN data})

\* A step writes to the target collection only, removes nothing, and changes
\* only a document the current item's filter matches
C18_Step ==
    /\ \A c \in Collections \ {collection_name} : db'[c] = db[c]
    /\ Len(db'[collection_name]) >= Len(db[collection_name])
    /\ \A i \in DOMAIN db[collection_name] :
          /\ db'[collection_name][i]._id = db[collection_name][i]._id
          /\ db'[collection_name][i] # db[collection_name][i]
                => /\ spc = "loop"
                   /\ idx <= Len(data)
                   /\ Matches(db[collection_name][i],
                              filter_query(data[idx], unique_keys))

\* C18: save_to_collection deletes no document and changes nothing outside
\* its collection; in the collection a document that matches no record of the
\* batch stays as it was, and the collection grows by at most the number of
\* distinct key tuples of the batch.
C18_WriteFrame == []C18_State /\ [][C18_Step]_vars

\* A call has returned that found a document none of its records selects and
\* that added a document
C18_Witness ==
    /\ spc = "returned"
    /\ Len(Target) > Len(db_before)
    /\ \E i \in DOMAIN db_before :
          /\ i \notin Selected(db_before, data, unique_keys)
          /\ Target[i] = db_before[i]

====
